---- MODULE Spec2Model ----
(***************************************************************************)
(* Model of the transaction engine of src/src/main.rs                      *)
(* (process_transactions): the two maps client_info and tx_map, and one    *)
(* action per arm of the match on the record type.  Decimal amounts are    *)
(* modelled as integers (a count of the smallest unit); rust_decimal       *)
(* compares and adds numerically, independent of scale.                    *)
(***************************************************************************)
EXTENDS Integers, FiniteSets, Sequences, TLC

\* ---- bounds of the model ------------------------------------------------
NumClients == 2
NumTx      == 2
MaxAmount  == 2
MaxNeg     == 1
MaxRecords == 4

Clients == 1..NumClients
TxIds   == 1..NumTx
Amounts == (0 - MaxNeg)..MaxAmount

\* ---- data ----------------------------------------------------------------
\* Option<Decimal>: None is the empty set, Some(a) is {a}.
None == {}
Some(a) == {a}

\* enum DisputeStage
DisputeStage == {"None", "Open", "ChargeBack"}

\* the five known type tags and one tag standing for every other byte string
TxTypes == {"deposit", "withdrawal", "dispute", "resolve", "chargeback", "other"}

\* the types whose arm reads record.amount
FundTypes == {"deposit", "withdrawal"}

\* struct TransactionEntry: the records the reader can yield.  The arms of the
\* other types never read the amount, so those records carry either no amount
\* or one representative amount.
TransactionEntry ==
  [tx_type : FundTypes, client : Clients, tx : TxIds,
   amount : {None} \cup {Some(a) : a \in Amounts}]
  \cup
  [tx_type : TxTypes \ FundTypes, client : Clients, tx : TxIds,
   amount : {None, Some(MaxAmount)}]

\* the empty ByteRecord before the first read
NoRecord == [tx_type |-> "", client |-> 0, tx |-> 0, amount |-> None]

\* struct ClientInfo, as created by or_insert
NewClientInfo == [available |-> 0, held |-> 0, total |-> 0, locked |-> FALSE]

\* struct Transaction
Transaction(c, a, s) == [client |-> c, amount |-> a, dispute_stage |-> s]

\* ---- HashMap operations ---------------------------------------------------
ContainsKey(m, k) == k \in DOMAIN m

\* get / get_mut: Option of the value
Get(m, k) == IF k \in DOMAIN m THEN Some(m[k]) ELSE None

\* insert: adds the key or overwrites its value
Insert(m, k, v) == [x \in (DOMAIN m) \cup {k} |-> IF x = k THEN v ELSE m[x]]

\* the value inside a Some
Unwrap(o) == CHOOSE x \in o : TRUE

\* result of one loop iteration: the two maps and the control outcome
\* ("continue" = next iteration, "error" = return Err(UnexpectedError))
Outcome(ci, tm, st) == [ci |-> ci, tm |-> tm, st |-> st]

\* ---- the pre-check on the client's lock (lines 66-81) ---------------------
\* "skip": the client's account is locked, the record is dropped
\* "error": contains_key said yes and get said None
\* "go": the record reaches the match on its type
\* variant: the lock of any account stops the record, not only the lock of
\* the record's client
PreCheck_AnyLocked(ci, r) ==
  IF \E c \in DOMAIN ci : ci[c].locked THEN "skip" ELSE "go"

\* variant: the lock is never looked at
PreCheck_NoLock(ci, r) ==
  IF ContainsKey(ci, r.client) /\ Get(ci, r.client) = None THEN "error" ELSE "go"

PreCheck(ci, r) ==
  IF ContainsKey(ci, r.client)
  THEN IF Get(ci, r.client) = None THEN "error"
       ELSE IF Unwrap(Get(ci, r.client)).locked THEN "skip" ELSE "go"
  ELSE "go"

\* ---- deposit (lines 84-119) ------------------------------------------------
\* client_funds.available += amt; client_funds.total += amt
\* variant: total is not updated
Credit_NoTotal(funds, amt) == [funds EXCEPT !.available = @ + amt]

Credit(funds, amt) ==
  [funds EXCEPT !.available = @ + amt, !.total = @ + amt]

\* client_info.entry(record.client).or_insert(ClientInfo {0, 0, 0, false})
EntryOrInsert(ci, c) == IF ContainsKey(ci, c) THEN ci[c] ELSE NewClientInfo

DepositArm(ci, tm, r) ==
  IF ContainsKey(tm, r.tx) THEN Outcome(ci, tm, "continue")
  ELSE IF r.amount = None THEN Outcome(ci, tm, "continue")
  ELSE LET amt == Unwrap(r.amount)
           ci2 == Insert(ci, r.client, Credit(EntryOrInsert(ci, r.client), amt))
       IN  Outcome(ci2, Insert(tm, r.tx, Transaction(r.client, amt, "None")),
                   "continue")

\* ---- withdrawal (lines 120-162) --------------------------------------------
\* the guard of line 122
\* variant: && in place of ||
WithdrawalSkip_And(ci, r) == r.amount = None /\ ~ContainsKey(ci, r.client)

WithdrawalSkip(ci, r) == r.amount = None \/ ~ContainsKey(ci, r.client)

\* the test of line 138
SufficientFunds(funds, amt) == funds.available >= amt

\* variant: total is not updated
Debit_NoTotal(funds, amt) == [funds EXCEPT !.available = @ - amt]

\* client_funds.available -= amt; client_funds.total -= amt
Debit(funds, amt) ==
  [funds EXCEPT !.available = @ - amt, !.total = @ - amt]

\* the value the closure of lines 136-145 returns: amt, or the marker -1.0
WithdrawnAmount(funds, amt) == IF SufficientFunds(funds, amt) THEN amt ELSE 0 - 1

\* the test of line 152 on that value
\* variant: the marker is not tested
RecordsEntry_Always(amount) == TRUE

RecordsEntry(amount) == amount >= 0

WithdrawalArm(ci, tm, r) ==
  IF WithdrawalSkip(ci, r) THEN Outcome(ci, tm, "continue")
  ELSE IF Get(ci, r.client) = None THEN Outcome(ci, tm, "error")
  ELSE IF r.amount = None THEN Outcome(ci, tm, "continue")
  ELSE LET funds  == Unwrap(Get(ci, r.client))
           amt    == Unwrap(r.amount)
           amount == WithdrawnAmount(funds, amt)
           ci2    == IF SufficientFunds(funds, amt)
                     THEN Insert(ci, r.client, Debit(funds, amt))
                     ELSE ci
           tm2    == IF RecordsEntry(amount)
                     THEN Insert(tm, r.tx, Transaction(r.client, amount, "None"))
                     ELSE tm
       IN  Outcome(ci2, tm2, "continue")

\* ---- dispute, resolve, chargeback (lines 163-252) --------------------------
\* the guard of lines 164, 195 and 223
ReferenceSkip(ci, tm, r) ==
  ~ContainsKey(tm, r.tx) \/ ~ContainsKey(ci, r.client)

\* the guard of line 179
\* variant: the owner is not tested
DisputeSkip_NoOwner(tx, r) == tx.dispute_stage # "None"

DisputeSkip(tx, r) == tx.client # r.client \/ tx.dispute_stage # "None"

\* the guard of line 210
ResolveSkip(tx, r) == tx.client # r.client \/ tx.dispute_stage # "Open"

\* the guard of line 237
\* variant: the stage is not tested
ChargebackSkip_NoStage(tx, r) == tx.client # r.client

ChargebackSkip(tx, r) == tx.client # r.client \/ tx.dispute_stage # "Open"

\* client_funds.available -= tx.amount; client_funds.held += tx.amount
\* variant: held is not updated
Hold_NoHeld(funds, amt) == [funds EXCEPT !.available = @ - amt]

Hold(funds, amt) ==
  [funds EXCEPT !.available = @ - amt, !.held = @ + amt]

\* client_funds.available += tx.amount; client_funds.held -= tx.amount
\* variant: held is not updated
Release_NoHeld(funds, amt) == [funds EXCEPT !.available = @ + amt]

Release(funds, amt) ==
  [funds EXCEPT !.available = @ + amt, !.held = @ - amt]

\* client_funds.total -= tx.amount; client_funds.held -= tx.amount;
\* client_funds.locked = true
\* variant: the account is not locked
Reverse_NoLock(funds, amt) ==
  [funds EXCEPT !.total = @ - amt, !.held = @ - amt]

\* variant: total is not updated
Reverse_NoTotal(funds, amt) ==
  [funds EXCEPT !.held = @ - amt, !.locked = TRUE]

Reverse(funds, amt) ==
  [funds EXCEPT !.total = @ - amt, !.held = @ - amt, !.locked = TRUE]

DisputeArm(ci, tm, r) ==
  IF ReferenceSkip(ci, tm, r) THEN Outcome(ci, tm, "continue")
  ELSE IF Get(tm, r.tx) = None THEN Outcome(ci, tm, "error")
  ELSE LET tx == Unwrap(Get(tm, r.tx)) IN
       IF DisputeSkip(tx, r) THEN Outcome(ci, tm, "continue")
       ELSE LET tm2 == Insert(tm, r.tx, [tx EXCEPT !.dispute_stage = "Open"]) IN
            IF Get(ci, r.client) = None THEN Outcome(ci, tm2, "continue")
            ELSE Outcome(Insert(ci, r.client,
                                Hold(Unwrap(Get(ci, r.client)), tx.amount)),
                         tm2, "continue")

ResolveArm(ci, tm, r) ==
  IF ReferenceSkip(ci, tm, r) THEN Outcome(ci, tm, "continue")
  ELSE IF Get(tm, r.tx) = None THEN Outcome(ci, tm, "error")
  ELSE LET tx == Unwrap(Get(tm, r.tx)) IN
       IF ResolveSkip(tx, r) THEN Outcome(ci, tm, "continue")
       ELSE IF Get(ci, r.client) = None THEN Outcome(ci, tm, "continue")
       ELSE Outcome(Insert(ci, r.client,
                           Release(Unwrap(Get(ci, r.client)), tx.amount)),
                    tm, "continue")

ChargebackArm(ci, tm, r) ==
  IF ReferenceSkip(ci, tm, r) THEN Outcome(ci, tm, "continue")
  ELSE IF Get(tm, r.tx) = None THEN Outcome(ci, tm, "error")
  ELSE LET tx == Unwrap(Get(tm, r.tx)) IN
       IF ChargebackSkip(tx, r) THEN Outcome(ci, tm, "continue")
       ELSE IF Get(ci, r.client) = None THEN Outcome(ci, tm, "continue")
       ELSE Outcome(Insert(ci, r.client,
                           Reverse(Unwrap(Get(ci, r.client)), tx.amount)),
                    Insert(tm, r.tx, [tx EXCEPT !.dispute_stage = "ChargeBack"]),
                    "continue")

\* ---- one iteration of the loop (lines 63-257) ------------------------------
Arm(ci, tm, r) ==
  CASE r.tx_type = "deposit"    -> DepositArm(ci, tm, r)
    [] r.tx_type = "withdrawal" -> WithdrawalArm(ci, tm, r)
    [] r.tx_type = "dispute"    -> DisputeArm(ci, tm, r)
    [] r.tx_type = "resolve"    -> ResolveArm(ci, tm, r)
    [] r.tx_type = "chargeback" -> ChargebackArm(ci, tm, r)
    [] OTHER                    -> Outcome(ci, tm, "continue")

Iteration(ci, tm, r) ==
  LET pre == PreCheck(ci, r) IN
  IF pre = "error" THEN Outcome(ci, tm, "error")
  ELSE IF pre = "skip" THEN Outcome(ci, tm, "continue")
  ELSE Arm(ci, tm, r)

\* ---- state -------------------------------------------------------------------
VARIABLES
  client_info,  \* HashMap<u16, ClientInfo>
  tx_map,       \* HashMap<u32, Transaction>
  record,       \* the record the loop read last
  status,       \* "running", "ok" (Ok(())) or "error" (Err(UnexpectedError))
  processed,    \* number of records read so far
  iso           \* two further runs of the function, on two streams that carry
                \* the same records of one client (used by SpecIso only)

vars == <<client_info, tx_map, record, status, processed, iso>>

EmptyMap == [x \in {} |-> 0]

\* a run of the function before its first record: both maps empty
NewRun == [ci |-> EmptyMap, tm |-> EmptyMap, st |-> "continue"]

\* two fresh runs compared on the account of client c; own and oth collect the
\* transaction ids carried by the records of c and by the other records
NewPair(c) ==
  [obs |-> c, a |-> NewRun, b |-> NewRun, own |-> {}, oth |-> {}, n |-> 0]

Init ==
  /\ client_info = EmptyMap
  /\ tx_map = EmptyMap
  /\ record = NoRecord
  /\ status = "running"
  /\ processed = 0
  /\ iso = NewPair(0)

\* read_byte_record returns true: one more record is in the stream
CanRead ==
  /\ status = "running"
  /\ processed < MaxRecords

\* the loop reads record r and runs one iteration on it
Read(r) ==
  /\ LET out == Iteration(client_info, tx_map, r) IN
       /\ client_info' = out.ci
       /\ tx_map' = out.tm
       /\ status' = IF out.st = "error" THEN "error" ELSE "running"
  /\ record' = r
  /\ processed' = processed + 1
  /\ UNCHANGED iso

\* the records of type t among the records S
OfType(S, t) == {r \in S : r.tx_type = t}

\* one action per arm of the match, over the records S the stream may carry
Deposit(S) ==
  /\ CanRead
  /\ \E r \in OfType(S, "deposit") : Read(r)

Withdrawal(S) ==
  /\ CanRead
  /\ \E r \in OfType(S, "withdrawal") : Read(r)

Dispute(S) ==
  /\ CanRead
  /\ \E r \in OfType(S, "dispute") : Read(r)

Resolve(S) ==
  /\ CanRead
  /\ \E r \in OfType(S, "resolve") : Read(r)

Chargeback(S) ==
  /\ CanRead
  /\ \E r \in OfType(S, "chargeback") : Read(r)

OtherType(S) ==
  /\ CanRead
  /\ \E r \in OfType(S, "other") : Read(r)

\* read_byte_record returns false: the loop ends and the function returns Ok(())
EndOfStream ==
  /\ status = "running"
  /\ status' = "ok"
  /\ UNCHANGED <<client_info, tx_map, record, processed, iso>>

Step(S) ==
  \/ Deposit(S)
  \/ Withdrawal(S)
  \/ Dispute(S)
  \/ Resolve(S)
  \/ Chargeback(S)
  \/ OtherType(S)
  \/ EndOfStream

\* every stream of at most MaxRecords records
Next == Step(TransactionEntry)

Spec == Init /\ [][Next]_vars

\* the streams none of whose records carries a negative amount
NonNegEntry == {r \in TransactionEntry : \A a \in r.amount : a >= 0}

NextNonNeg == Step(NonNegEntry)

SpecNonNeg == Init /\ [][NextNonNeg]_vars

\* ---- two runs on streams that agree on one client's records ---------------
\* the run reads record r; a run that returned Err reads no more
RunRead(run, r) ==
  IF run.st = "error" THEN run
  ELSE LET out == Iteration(run.ci, run.tm, r)
       IN  [ci |-> out.ci, tm |-> out.tm, st |-> out.st]

InitIso ==
  /\ client_info = EmptyMap
  /\ tx_map = EmptyMap
  /\ record = NoRecord
  /\ status = "running"
  /\ processed = 0
  /\ iso \in {NewPair(c) : c \in Clients}

IsoCanRead == iso.n < MaxRecords

\* the next record of the observed client: it is in both streams
IsoOwn ==
  /\ IsoCanRead
  /\ \E r \in TransactionEntry :
       /\ r.client = iso.obs
       /\ iso' = [iso EXCEPT !.a = RunRead(@, r), !.b = RunRead(@, r),
                             !.own = @ \cup {r.tx}, !.n = @ + 1]
  /\ UNCHANGED <<client_info, tx_map, record, status, processed>>

\* a record of another client, in the first stream only
IsoOtherA ==
  /\ IsoCanRead
  /\ \E r \in TransactionEntry :
       /\ r.client # iso.obs
       /\ iso' = [iso EXCEPT !.a = RunRead(@, r),
                             !.oth = @ \cup {r.tx}, !.n = @ + 1]
  /\ UNCHANGED <<client_info, tx_map, record, status, processed>>

\* a record of another client, in the second stream only
IsoOtherB ==
  /\ IsoCanRead
  /\ \E r \in TransactionEntry :
       /\ r.client # iso.obs
       /\ iso' = [iso EXCEPT !.b = RunRead(@, r),
                             !.oth = @ \cup {r.tx}, !.n = @ + 1]
  /\ UNCHANGED <<client_info, tx_map, record, status, processed>>

NextIso ==
  \/ IsoOwn
  \/ IsoOtherA
  \/ IsoOtherB

SpecIso == InitIso /\ [][NextIso]_vars

\* ---- shape of the state ---------------------------------------------------
TypeOK ==
  /\ DOMAIN client_info \subseteq Clients
  /\ \A c \in DOMAIN client_info :
       /\ client_info[c].available \in Int
       /\ client_info[c].held \in Int
       /\ client_info[c].total \in Int
       /\ client_info[c].locked \in BOOLEAN
  /\ DOMAIN tx_map \subseteq TxIds
  /\ \A t \in DOMAIN tx_map :
       /\ tx_map[t].client \in Clients
       /\ tx_map[t].amount \in Int
       /\ tx_map[t].dispute_stage \in DisputeStage
  /\ status \in {"running", "ok", "error"}
  /\ processed \in 0..MaxRecords

\* ---- helpers of the properties ---------------------------------------------
\* this step read a record (the record is record')
ReadStep == processed' = processed + 1

Exists(c) == c \in DOMAIN client_info
Locked(c) == Exists(c) /\ client_info[c].locked
HasEntry(t) == t \in DOMAIN tx_map
StageOf(tm, t) == IF t \in DOMAIN tm THEN tm[t].dispute_stage ELSE "absent"
Zero == [available |-> 0, held |-> 0, total |-> 0, locked |-> FALSE]

\* C1: in every state reached by processing records, every existing account
\* has total = available + held.
C1_TotalIsSum ==
  \A c \in DOMAIN client_info :
    client_info[c].total = client_info[c].available + client_info[c].held

\* a chargeback has just been applied to an account that keeps funds
C1_Witness ==
  /\ record.tx_type = "chargeback"
  /\ Locked(record.client)
  /\ StageOf(tx_map, record.tx) = "ChargeBack"
  /\ client_info[record.client].total > 0

\* C2: once an account is locked, no step changes it: it stays locked and
\* keeps its available, held and total, whatever record is read.
C2_LockedFrozen ==
  [][\A c \in DOMAIN client_info :
       client_info[c].locked =>
         /\ c \in DOMAIN client_info'
         /\ client_info'[c] = client_info[c]]_vars

\* a deposit that would otherwise apply was read for a locked client
C2_Witness ==
  /\ record.tx_type = "deposit"
  /\ Locked(record.client)
  /\ record.amount # None
  /\ ~HasEntry(record.tx)

\* C3: a step that reads a record whose client has a locked account changes
\* neither map: no account and no ledger entry is changed or created.
C3_LockedRecordNoChange ==
  [][(ReadStep /\ Locked(record'.client))
       => UNCHANGED <<client_info, tx_map>>]_vars

\* a withdrawal the balance would cover was read for a locked client
C3_Witness ==
  /\ record.tx_type = "withdrawal"
  /\ Locked(record.client)
  /\ record.amount # None
  /\ \A a \in record.amount : a >= 0 /\ client_info[record.client].available >= a
  /\ ~HasEntry(record.tx)

\* C4: the function never returns Err(UnexpectedError).
C4_NoUnexpectedError == status # "error"

\* the run ended with Ok(()) after a dispute passed both lookups of its arm
C4_Witness ==
  /\ status = "ok"
  /\ record.tx_type = "dispute"
  /\ Exists(record.client)
  /\ StageOf(tx_map, record.tx) = "Open"
  /\ tx_map[record.tx].client = record.client

\* C5: the dispute stage of a ledger entry never moves backwards: an Open
\* entry never becomes None again and a ChargeBack entry never changes.
C5_StageNeverBackwards ==
  [][\A t \in DOMAIN tx_map :
       /\ tx_map[t].dispute_stage = "Open" => StageOf(tx_map', t) # "None"
       /\ tx_map[t].dispute_stage = "ChargeBack"
            => StageOf(tx_map', t) = "ChargeBack"]_vars

\* C6: an entry becomes ChargeBack only from Open, by a chargeback on its id,
\* and becomes Open only from None, by a dispute on its id.
C6_NoSkipOpen ==
  [][\A t \in DOMAIN tx_map' :
       /\ (StageOf(tx_map', t) = "ChargeBack" /\ StageOf(tx_map, t) # "ChargeBack")
            => /\ StageOf(tx_map, t) = "Open"
               /\ record'.tx_type = "chargeback"
               /\ record'.tx = t
       /\ (StageOf(tx_map', t) = "Open" /\ StageOf(tx_map, t) # "Open")
            => /\ StageOf(tx_map, t) = "None"
               /\ record'.tx_type = "dispute"
               /\ record'.tx = t]_vars

\* a chargeback has just moved an entry to ChargeBack
C6_Witness ==
  /\ record.tx_type = "chargeback"
  /\ StageOf(tx_map, record.tx) = "ChargeBack"
  /\ tx_map[record.tx].client = record.client
  /\ processed = 3

\* C7: a deposit or withdrawal whose transaction id already has a ledger
\* entry changes no account and no ledger entry.
C7_DuplicateIdDiscarded ==
  [][(ReadStep /\ record'.tx_type \in FundTypes /\ HasEntry(record'.tx))
       => UNCHANGED <<client_info, tx_map>>]_vars

\* C8: a deposit with an amount and a fresh transaction id, for a client with
\* no account or an unlocked one, adds the amount to available and total of
\* that account (created all-zero if absent), keeps its held and locked,
\* keeps every other account, and creates the entry {client, amount, None}.
C8_DepositApplied ==
  [][(/\ ReadStep
      /\ record'.tx_type = "deposit"
      /\ record'.amount # None
      /\ ~HasEntry(record'.tx)
      /\ ~Locked(record'.client))
       => LET c   == record'.client
              old == IF Exists(c) THEN client_info[c] ELSE Zero
          IN  \A a \in record'.amount :
                /\ DOMAIN client_info' = DOMAIN client_info \cup {c}
                /\ client_info'[c].available = old.available + a
                /\ client_info'[c].total = old.total + a
                /\ client_info'[c].held = old.held
                /\ client_info'[c].locked = old.locked
                /\ \A d \in DOMAIN client_info \ {c} :
                     client_info'[d] = client_info[d]
                /\ record'.tx \in DOMAIN tx_map'
                /\ tx_map'[record'.tx] =
                     [client |-> c, amount |-> a, dispute_stage |-> "None"]]_vars

\* a deposit was applied to an account that holds disputed funds
C8_Witness ==
  /\ record.tx_type = "deposit"
  /\ processed = 3
  /\ Cardinality(DOMAIN tx_map) = 2
  /\ Exists(record.client)
  /\ client_info[record.client].held > 0
  /\ \A a \in record.amount : a > 0 /\ client_info[record.client].available = a
  /\ StageOf(tx_map, record.tx) = "None"

\* C9: a withdrawal with an amount, for an existing unlocked account whose
\* available covers the amount, subtracts the amount from available and
\* total, keeps held, and records the entry {client, amount, None}.
C9_WithdrawalApplied ==
  [][(/\ ReadStep
      /\ record'.tx_type = "withdrawal"
      /\ record'.amount # None
      /\ Exists(record'.client)
      /\ ~Locked(record'.client)
      /\ \A a \in record'.amount : client_info[record'.client].available >= a)
       => LET c == record'.client
          IN  \A a \in record'.amount :
                /\ client_info'[c].available = client_info[c].available - a
                /\ client_info'[c].total = client_info[c].total - a
                /\ client_info'[c].held = client_info[c].held
                /\ record'.tx \in DOMAIN tx_map'
                /\ tx_map'[record'.tx] =
                     [client |-> c, amount |-> a, dispute_stage |-> "None"]]_vars

\* C10: a withdrawal with no amount, or for a client with no account, or for
\* more than the account's available, changes no account and no ledger entry.
C10_WithdrawalDiscarded ==
  [][(/\ ReadStep
      /\ record'.tx_type = "withdrawal"
      /\ \/ record'.amount = None
         \/ ~Exists(record'.client)
         \/ \E a \in record'.amount :
              client_info[record'.client].available < a)
       => UNCHANGED <<client_info, tx_map>>]_vars

\* a withdrawal for more than the available funds of an unlocked account
C10_Witness ==
  /\ record.tx_type = "withdrawal"
  /\ Exists(record.client)
  /\ ~Locked(record.client)
  /\ \E a \in record.amount : client_info[record.client].available < a
  /\ ~HasEntry(record.tx)

\* ---- dispute, resolve, chargeback ------------------------------------------
ReferenceTypes == {"dispute", "resolve", "chargeback"}

\* the stage a record of a reference type needs its entry to be in
RequiredStage(t) == IF t = "dispute" THEN "None" ELSE "Open"

\* the record r refers to an entry of its own client, in stage s, and the
\* client has an unlocked account
PassesGuards(r, s) ==
  /\ HasEntry(r.tx)
  /\ Exists(r.client)
  /\ ~Locked(r.client)
  /\ tx_map[r.tx].client = r.client
  /\ tx_map[r.tx].dispute_stage = s

\* C11: a dispute, resolve or chargeback changes no account and no ledger
\* entry when its transaction id has no entry, or its client has no account,
\* or the entry belongs to another client, or the entry is not in the stage
\* the record needs (None for dispute, Open for resolve and chargeback).
C11_ReferenceDiscarded ==
  [][(/\ ReadStep
      /\ record'.tx_type \in ReferenceTypes
      /\ \/ ~HasEntry(record'.tx)
         \/ ~Exists(record'.client)
         \/ tx_map[record'.tx].client # record'.client
         \/ tx_map[record'.tx].dispute_stage # RequiredStage(record'.tx_type))
       => UNCHANGED <<client_info, tx_map>>]_vars

\* a dispute was read for an undisputed entry of another client
C11_Witness ==
  /\ record.tx_type = "dispute"
  /\ HasEntry(record.tx)
  /\ Exists(record.client)
  /\ ~Locked(record.client)
  /\ tx_map[record.tx].client # record.client
  /\ tx_map[record.tx].dispute_stage = "None"

\* C12: a dispute that passes its guards sets the entry's stage to Open,
\* moves the entry's amount from available to held, and keeps total and locked.
C12_DisputeApplied ==
  [][(ReadStep /\ record'.tx_type = "dispute" /\ PassesGuards(record', "None"))
       => LET c == record'.client
              a == tx_map[record'.tx].amount
          IN  /\ StageOf(tx_map', record'.tx) = "Open"
              /\ client_info'[c].available = client_info[c].available - a
              /\ client_info'[c].held = client_info[c].held + a
              /\ client_info'[c].total = client_info[c].total
              /\ client_info'[c].locked = client_info[c].locked]_vars

\* a dispute has just put a positive amount on hold
C12_Witness ==
  /\ record.tx_type = "dispute"
  /\ StageOf(tx_map, record.tx) = "Open"
  /\ tx_map[record.tx].client = record.client
  /\ tx_map[record.tx].amount > 0
  /\ client_info[record.client].held = tx_map[record.tx].amount
  /\ processed = 2

\* C13: a resolve that passes its guards moves the entry's amount from held
\* back to available, keeps total and locked, and leaves the stage at Open.
C13_ResolveApplied ==
  [][(ReadStep /\ record'.tx_type = "resolve" /\ PassesGuards(record', "Open"))
       => LET c == record'.client
              a == tx_map[record'.tx].amount
          IN  /\ StageOf(tx_map', record'.tx) = "Open"
              /\ client_info'[c].available = client_info[c].available + a
              /\ client_info'[c].held = client_info[c].held - a
              /\ client_info'[c].total = client_info[c].total
              /\ client_info'[c].locked = client_info[c].locked]_vars

\* deposit, dispute, resolve: the held amount is back in available
C13_Witness ==
  /\ record.tx_type = "resolve"
  /\ processed = 3
  /\ StageOf(tx_map, record.tx) = "Open"
  /\ tx_map[record.tx].client = record.client
  /\ tx_map[record.tx].amount > 0
  /\ client_info[record.client].held = 0
  /\ client_info[record.client].available = tx_map[record.tx].amount

\* C14: a chargeback that passes its guards subtracts the entry's amount from
\* held and total, keeps available, sets the stage to ChargeBack and locks
\* the account.
C14_ChargebackApplied ==
  [][(ReadStep /\ record'.tx_type = "chargeback" /\ PassesGuards(record', "Open"))
       => LET c == record'.client
              a == tx_map[record'.tx].amount
          IN  /\ StageOf(tx_map', record'.tx) = "ChargeBack"
              /\ client_info'[c].held = client_info[c].held - a
              /\ client_info'[c].total = client_info[c].total - a
              /\ client_info'[c].available = client_info[c].available
              /\ client_info'[c].locked = TRUE]_vars

\* deposit, dispute, chargeback of a positive amount: the funds are gone
C14_Witness ==
  /\ record.tx_type = "chargeback"
  /\ processed = 3
  /\ StageOf(tx_map, record.tx) = "ChargeBack"
  /\ tx_map[record.tx].amount > 0
  /\ Locked(record.client)
  /\ client_info[record.client].total = 0
  /\ client_info[record.client].held = 0

\* ---- ledger entries and balances -------------------------------------------
\* C15: the client of a ledger entry never changes once the entry exists.
C15_OwnerImmutable ==
  [][\A t \in DOMAIN tx_map :
       /\ t \in DOMAIN tx_map'
       /\ tx_map'[t].client = tx_map[t].client]_vars

\* C16: every ledger entry has amount >= 0, whatever amounts the records
\* carry (negative ones included).
C16_EntryAmountNonNeg ==
  \A t \in DOMAIN tx_map : tx_map[t].amount >= 0

\* C17: with no negative amount in the stream, every account has held >= 0.
C17_HeldNonNeg ==
  \A c \in DOMAIN client_info : client_info[c].held >= 0

\* C18: with no negative amount in the stream, every account has
\* available >= 0.
C18_AvailableNonNeg ==
  \A c \in DOMAIN client_info : client_info[c].available >= 0

\* the total of client c in the map ci; a client with no account has none
TotalOf(ci, c) == IF c \in DOMAIN ci THEN ci[c].total ELSE 0

\* the amount a record carries
AmountOf(r) == CHOOSE a \in r.amount : TRUE

\* the records that are applied in the current state
AppliedDeposit(r) ==
  /\ r.tx_type = "deposit"
  /\ r.amount # None
  /\ ~HasEntry(r.tx)
  /\ ~Locked(r.client)

AppliedWithdrawal(r) ==
  /\ r.tx_type = "withdrawal"
  /\ r.amount # None
  /\ Exists(r.client)
  /\ ~Locked(r.client)
  /\ client_info[r.client].available >= AmountOf(r)

AppliedChargeback(r) ==
  /\ r.tx_type = "chargeback"
  /\ PassesGuards(r, "Open")

\* what record r adds to the total of its client: the amount of an applied
\* deposit, minus the amount of an applied withdrawal, minus the entry's
\* amount for an applied chargeback, and nothing otherwise (dispute and
\* resolve included)
TotalDelta(r) ==
  IF AppliedDeposit(r) THEN AmountOf(r)
  ELSE IF AppliedWithdrawal(r) THEN 0 - AmountOf(r)
  ELSE IF AppliedChargeback(r) THEN 0 - tx_map[r.tx].amount
  ELSE 0

\* C19: conservation of funds, step by step.  Every step changes the total of
\* the record's client by exactly TotalDelta and no other total; totals start
\* at 0, so each total is the sum of the applied deposits minus the applied
\* withdrawals minus the amounts charged back.
C19_Conservation ==
  [][\A c \in Clients :
       TotalOf(client_info', c) =
         TotalOf(client_info, c)
           + (IF ReadStep /\ record'.client = c THEN TotalDelta(record') ELSE 0)]_vars

\* deposit, withdrawal, dispute and chargeback of the withdrawal's entry
C19_Witness ==
  /\ record.tx_type = "chargeback"
  /\ processed = 4
  /\ Cardinality(DOMAIN tx_map) = 2
  /\ StageOf(tx_map, record.tx) = "ChargeBack"
  /\ tx_map[record.tx].amount = 1
  /\ \E t \in DOMAIN tx_map :
       /\ tx_map[t].amount = 2
       /\ tx_map[t].dispute_stage = "None"
       /\ tx_map[t].client = record.client
  /\ DOMAIN client_info = {record.client}
  /\ client_info[record.client].total = 0
  /\ client_info[record.client].available = 0

\* ---- client isolation ------------------------------------------------------
\* the account of the observed client in a run: None or Some(account)
ObservedAccount(run) == Get(run.ci, iso.obs)

\* C20 as stated: two streams that carry the same records of client C, and
\* any records of other clients (which may reuse C's transaction ids), give
\* C the same account.
C20_Isolation == ObservedAccount(iso.a) = ObservedAccount(iso.b)

\* C20 as amended: the same, for streams in which no record of another client
\* carries a transaction id that a record of C carries.
C20_IsolationDisjointIds ==
  (iso.own \cap iso.oth = {}) => ObservedAccount(iso.a) = ObservedAccount(iso.b)

\* C has an account that went through a dispute, the other clients' records
\* used other transaction ids and left the two runs in different states
C20_Witness ==
  /\ iso.own \cap iso.oth = {}
  /\ iso.oth # {}
  /\ iso.a.ci # iso.b.ci
  /\ iso.a.tm # iso.b.tm
  /\ ObservedAccount(iso.a) # None
  /\ \E acc \in ObservedAccount(iso.a) : acc.held > 0
====
